---- MODULE Spec2Model ----
(***************************************************************************)
(* Payment-notification opt-out management: the preference service of      *)
(* src/backend-app.ts (getUserNotificationPreferences,                     *)
(* updateUserNotificationPreference, shouldSendNotification), its HTTP     *)
(* handlers, and the PostgreSQL tables and connection pool they run on.    *)
(*                                                                         *)
(* Every HTTP request / gate call is a request slot r.  Each `await` of    *)
(* the code is one step of the slot, so the steps of different requests    *)
(* interleave exactly where Node's event loop lets them.  The database is  *)
(* PostgreSQL at its default isolation level READ COMMITTED: a statement   *)
(* sees the rows committed before it started plus the writes of its own    *)
(* transaction, a plain SELECT takes no lock, INSERT .. ON CONFLICT DO     *)
(* UPDATE takes the row (or unique-index) lock of its key until the        *)
(* transaction ends, and COMMIT publishes all writes of the transaction    *)
(* at once.                                                                *)
(***************************************************************************)
EXTENDS Integers, Sequences, FiniteSets, TLC

\* ------------------------------------------------------------------ bounds
\* number of request slots that can be in flight at the same time
NumRequests == 2
\* total number of requests issued in one behaviour
MaxCalls == 3
\* connections of the pool (`max` of the Pool, scaled down from 10)
PoolMax == 2
\* number of values uuidv4() can return (scaled down from 2^122)
MaxUuids == 2

Requests == 1..NumRequests

\* ------------------------------------------------------------- data model
\* users of the users table (the bearer token is the user id)
Users == {"u1", "u2"}

\* enum PaymentNotificationType, in declaration order
PaymentNotificationType == <<"payment_success", "payment_failure", "payment_refund">>

\* Object.values(PaymentNotificationType)
AllTypes == {PaymentNotificationType[i] : i \in DOMAIN PaymentNotificationType}

\* primary key (user_id, notification_type) of notification_preferences
Keys == Users \X AllTypes

\* values a request body can carry in `type`: the enum members, a string that
\* is no member, and the empty string (falsy)
BodyTypes == AllTypes \cup {"unknown_category", ""}

\* values a request body can carry in `optedOut`, with their JS typeof
JsTrue == [typeof |-> "boolean", value |-> TRUE]
JsFalse == [typeof |-> "boolean", value |-> FALSE]
JsString == [typeof |-> "string", value |-> TRUE]
BodyOptedOut == {JsTrue, JsFalse, JsString}

\* values of the Authorization header: none, another scheme, Bearer with an
\* empty token, Bearer with a user id
NoHeader == [present |-> FALSE, prefix |-> "", token |-> ""]
BasicHeader == [present |-> TRUE, prefix |-> "Basic ", token |-> "u1"]
Bearer(token) == [present |-> TRUE, prefix |-> "Bearer ", token |-> token]
AuthHeaders == {NoHeader, BasicHeader, Bearer("")} \cup {Bearer(u) : u \in Users}

\* the values uuidv4() can return, in their sort order
Uuids == 1..MaxUuids

\* the three entry points
Kinds == {"GET", "PUT", "GATE"}

VARIABLES
  notification_preferences, \* committed rows: a function key -> opted_out
  audit_logs,               \* committed rows of audit_logs, in commit order
  rowLock,                  \* key -> the requests (none or one) whose open
                            \* transaction holds the lock of the key's row
  idle,                     \* free connections of the pool
  clock,                    \* database time
  calls,                    \* requests issued so far
  req,                      \* request slot -> local state of its handler
  sequential,               \* TRUE: requests are issued one after another
  snap,                     \* (sequential) the tables when the call started
  prev,                     \* (sequential) the previous setPreference call
  effective,                \* (sequential) key -> committed calls that asked for
                            \* a value other than the one in effect before them
  page                      \* state of NotificationSettingsPage in the browser of
                            \* PageUser; never mounted in Spec and SpecSeq

vars == <<notification_preferences, audit_logs, rowLock, idle, clock, calls,
          req, sequential, snap, prev, effective, page>>

\* ---------------------------------------------------------- pure functions
\* SELECT opted_out FROM notification_preferences WHERE user_id = $1 AND
\* notification_type = $2 : the rows (zero or one) as a sequence
SelectOne(prefs, userId, type) ==
  IF <<userId, type>> \in DOMAIN prefs THEN << [opted_out |-> prefs[<<userId, type>>]] >> ELSE << >>

\* faulty variant: a missing row read as opted out
OldOptedOutDefaultTrue(oldRows) == IF Len(oldRows) > 0 THEN oldRows[1].opted_out ELSE TRUE

\* oldRows.length > 0 ? oldRows[0].opted_out : false
OldOptedOut(oldRows) == IF Len(oldRows) > 0 THEN oldRows[1].opted_out ELSE FALSE

\* faulty variant: a dirty read, which also sees the rows written by open
\* transactions
SelectUserDirty(prefs, userId) ==
  LET writers == {q \in Requests : req[q].wrote /\ req[q].userId = userId}
      written == {req[q].type : q \in writers}
      stored == {k[2] : k \in {d \in DOMAIN prefs : d[1] = userId}}
  IN {[notification_type |-> t,
       opted_out |-> IF t \in written
                     THEN req[CHOOSE q \in writers : req[q].type = t].optedOut.value
                     ELSE prefs[<<userId, t>>]] : t \in stored \cup written}

\* SELECT notification_type, opted_out FROM notification_preferences WHERE
\* user_id = $1 : the set of rows
SelectUser(prefs, userId) ==
  {[notification_type |-> k[2], opted_out |-> prefs[k]] : k \in {d \in DOMAIN prefs : d[1] = userId}}

\* for (const row of rows) prefMap[row.notification_type] = row.opted_out
PrefMap(rows) ==
  [t \in {r.notification_type : r \in rows} |->
     (CHOOSE r \in rows : r.notification_type = t).opted_out]

\* faulty variant: a missing type filled with true instead of false
FullViewDefaultTrue(rows) ==
  [i \in DOMAIN PaymentNotificationType |->
     [type |-> PaymentNotificationType[i],
      optedOut |-> IF PaymentNotificationType[i] \in DOMAIN PrefMap(rows)
                   THEN PrefMap(rows)[PaymentNotificationType[i]]
                   ELSE TRUE]]

\* allTypes.map(type => ({type, optedOut: prefMap[type] ?? false}))
FullView(rows) ==
  [i \in DOMAIN PaymentNotificationType |->
     [type |-> PaymentNotificationType[i],
      optedOut |-> IF PaymentNotificationType[i] \in DOMAIN PrefMap(rows)
                   THEN PrefMap(rows)[PaymentNotificationType[i]]
                   ELSE FALSE]]

\* faulty variant: the typeof check of optedOut left out
MalformedTypeOnly(type, optedOut) ==
  \/ type = ""
  \/ type \notin AllTypes

\* !type || !Object.values(PaymentNotificationType).includes(type) ||
\* typeof optedOut !== 'boolean'
Malformed(type, optedOut) ==
  \/ type = ""
  \/ type \notin AllTypes
  \/ optedOut.typeof # "boolean"

\* faulty variant: the negation of opted_out left out
GateAnswerNotNegated(rows) == IF Len(rows) = 0 THEN TRUE ELSE rows[1].opted_out

\* rows.length === 0 ? true : !rows[0].opted_out
GateAnswer(rows) == IF Len(rows) = 0 THEN TRUE ELSE ~rows[1].opted_out

\* faulty variant: the statement writes the value to a row of every category
\* of the user
UpsertAllCategories(prefs, userId, type, optedOut) ==
  [k \in DOMAIN prefs \cup {<<userId, t>> : t \in AllTypes} |->
     IF k[1] = userId THEN optedOut ELSE prefs[k]]

\* faulty variant: ON CONFLICT DO NOTHING, an existing row keeps its value
UpsertInsertOnly(prefs, userId, type, optedOut) ==
  [k \in DOMAIN prefs \cup {<<userId, type>>} |->
     IF k \in DOMAIN prefs THEN prefs[k] ELSE optedOut]

\* INSERT .. ON CONFLICT (user_id, notification_type) DO UPDATE SET opted_out
Upsert(prefs, userId, type, optedOut) ==
  [k \in DOMAIN prefs \cup {<<userId, type>>} |->
     IF k = <<userId, type>> THEN optedOut ELSE prefs[k]]

\* faulty variant: old and new value passed in the wrong order
AuditRowSwapped(id, userId, type, oldOptedOut, optedOut, now) ==
  [id |-> id, user_id |-> userId, notification_type |-> type, old_opted_out |-> optedOut,
   new_opted_out |-> oldOptedOut, changed_at |-> now]

\* the row INSERT INTO audit_logs adds
AuditRow(id, userId, type, oldOptedOut, optedOut, now) ==
  [id |-> id, user_id |-> userId, notification_type |-> type, old_opted_out |-> oldOptedOut,
   new_opted_out |-> optedOut, changed_at |-> now]

\* faulty variant: the check of the scheme left out
UnauthorizedNoSchemeCheck(header) ==
  \/ ~header.present
  \/ header.token = ""

\* authMiddleware: !authHeader || !authHeader.startsWith('Bearer ') and, for
\* the token behind the prefix, !token || !isValidUserId(token)
Unauthorized(header) ==
  \/ ~header.present
  \/ header.prefix # "Bearer "
  \/ header.token = ""

\* error handling middleware: err.code === '23505' is answered 409, every
\* other error 500
ErrorResponse(code) == IF code = "23505" THEN "conflict" ELSE "failed"

\* the value in effect for a key: the stored one, false when no row exists
EffectiveValue(prefs, key) == IF key \in DOMAIN prefs THEN prefs[key] ELSE FALSE

\* ------------------------------------------------------------ settings page
\* the user whose browser shows the settings page (the token in localStorage)
PageUser == "u1"

\* no settings page is open
NoPage ==
  [mounted |-> FALSE, loading |-> FALSE, preferences |-> << >>, saving |-> {},
   pending |-> {}, failed |-> FALSE]

\* NotificationSettingsPage after its first render: useState initial values
\* (preferences null is the empty sequence, saving {} the empty set); pending
\* are the request slots whose response the page awaits, failed records that
\* a handleToggle ran into its catch block
MountedPage ==
  [mounted |-> TRUE, loading |-> TRUE, preferences |-> << >>, saving |-> {},
   pending |-> {}, failed |-> FALSE]

\* render: pref = preferences.find(p => p.type === type);
\* checked = pref ? pref.optedOut : false
Checked(preferences, type) ==
  IF \E i \in DOMAIN preferences : preferences[i].type = type
  THEN preferences[CHOOSE i \in DOMAIN preferences : preferences[i].type = type].optedOut
  ELSE FALSE

\* useEffect on mount: the page calls fetchNotificationPreferences once, with
\* the Bearer header the request interceptor adds
PageFetch(kind, header) ==
  /\ page.mounted
  /\ kind = "GET"
  /\ header = Bearer(PageUser)
  /\ page.loading
  /\ page.pending = {}

\* the form is rendered (!loading && preferences) and the toggle of type is
\* not disabled (saving[type]): onChange calls handleToggle(type, checked)
\* with the inverse of what the checkbox shows
CanToggle(header, type, optedOut) ==
  /\ header = Bearer(PageUser)
  /\ ~page.loading
  /\ page.preferences # << >>
  /\ type \in AllTypes \ page.saving
  /\ optedOut = IF Checked(page.preferences, type) THEN JsFalse ELSE JsTrue

\* the page after it issued the request in slot r: the fetch on mount, or
\* handleToggle up to its await (setSaving(type -> true))
Issued(r, kind, type) ==
  IF kind = "PUT"
  THEN [page EXCEPT !.pending = @ \cup {r}, !.saving = @ \cup {type}]
  ELSE [page EXCEPT !.pending = @ \cup {r}]

\* the page after the response (kind, type, outcome, view) of slot r arrived:
\* .then / .catch of the fetch on mount, or handleToggle after its await:
\* setPreferences(updated) on success, the catch block otherwise, and
\* setSaving(type -> false) in finally
Received(r, kind, type, outcome, view) ==
  IF kind = "PUT"
  THEN [page EXCEPT !.pending = @ \ {r}, !.saving = @ \ {type},
                    !.preferences = IF outcome = "ok" THEN view ELSE @,
                    !.failed = @ \/ outcome # "ok"]
  ELSE [page EXCEPT !.pending = @ \ {r}, !.loading = FALSE,
                    !.preferences = IF outcome = "ok" THEN view ELSE @]

\* ------------------------------------------------------------ request state
\* local state of a request slot that is not in use
IdleRequest ==
  [pc |-> "idle", kind |-> "GET", userId |-> "u1", type |-> "payment_success",
   optedOut |-> JsFalse, oldOptedOut |-> FALSE, txnStart |-> 0, wrote |-> FALSE,
   audit |-> << >>, view |-> << >>, answer |-> TRUE, err |-> "",
   auth |-> NoHeader,
   outcome |-> "pending"]

\* the key a request works on
KeyOf(r) == <<req[r].userId, req[r].type>>

\* the places of updateUserNotificationPreference inside BEGIN .. COMMIT
InTransaction == {"put_begin", "put_select", "put_upsert", "put_audit", "put_commit"}

\* the places where a request waits for pool.connect()
AtConnect == {"get_connect", "gate_connect", "put_connect"}

\* where pool.connect() leads
AfterConnect(pc) ==
  CASE pc = "get_connect" -> "get_query"
    [] pc = "gate_connect" -> "gate_query"
    [] pc = "put_connect" -> "put_begin"

\* no other request is in flight
OthersIdle(r) == \A q \in Requests \ {r} : req[q].pc = "idle"

Init ==
  /\ notification_preferences = << >>
  /\ audit_logs = << >>
  /\ rowLock = [k \in Keys |-> {}]
  /\ idle = PoolMax
  /\ clock = 1
  /\ calls = 0
  /\ req = [r \in Requests |-> IdleRequest]
  /\ sequential = FALSE
  /\ snap = [prefs |-> << >>, audit |-> << >>]
  /\ prev = [valid |-> FALSE, userId |-> "u1", type |-> "payment_success",
             optedOut |-> FALSE, view |-> << >>]
  /\ effective = [k \in Keys |-> 0]
  /\ page = NoPage

\* the same system, driven by a caller that waits for each answer before it
\* issues the next request
InitSeq ==
  /\ notification_preferences = << >>
  /\ audit_logs = << >>
  /\ rowLock = [k \in Keys |-> {}]
  /\ idle = PoolMax
  /\ clock = 1
  /\ calls = 0
  /\ req = [r \in Requests |-> IdleRequest]
  /\ sequential = TRUE
  /\ snap = [prefs |-> << >>, audit |-> << >>]
  /\ prev = [valid |-> FALSE, userId |-> "u1", type |-> "payment_success",
             optedOut |-> FALSE, view |-> << >>]
  /\ effective = [k \in Keys |-> 0]
  /\ page = NoPage

\* ----------------------------------------------------------------- actions
\* a request arrives: GET or PUT /notification-preferences with its
\* Authorization header, which authMiddleware answers 401 or passes on with
\* the token as user id, or a call of shouldSendNotification(userId, type)
Start(r) ==
  /\ req[r].pc = "idle"
  /\ calls < MaxCalls
  /\ sequential => OthersIdle(r)
  /\ \E kind \in Kinds, header \in AuthHeaders, type \in BodyTypes, optedOut \in BodyOptedOut :
       /\ kind = "GET" => type = "payment_success" /\ optedOut = JsFalse
       /\ kind = "GATE" => type \in AllTypes /\ optedOut = JsFalse /\ ~Unauthorized(header)
       /\ (kind # "GATE" /\ Unauthorized(header)) => type = "payment_success" /\ optedOut = JsFalse
       /\ (page.mounted /\ kind = "PUT" /\ ~Unauthorized(header)) =>
            CanToggle(header, type, optedOut)
       /\ page' = IF PageFetch(kind, header) \/ (page.mounted /\ kind = "PUT" /\ ~Unauthorized(header))
                  THEN Issued(r, kind, type)
                  ELSE page
       /\ req' = [req EXCEPT ![r] =
                    IF kind # "GATE" /\ Unauthorized(header)
                    THEN [IdleRequest EXCEPT !.pc = "done", !.kind = kind,
                                             !.auth = header, !.outcome = "unauthorized"]
                    ELSE [IdleRequest EXCEPT
                            !.pc = CASE kind = "GET" -> "get_connect"
                                     [] kind = "GATE" -> "gate_connect"
                                     [] kind = "PUT" -> "put_handler",
                            !.kind = kind, !.userId = header.token, !.type = type,
                            !.optedOut = optedOut,
                            !.auth = IF kind = "GATE" THEN NoHeader ELSE header]]
  /\ calls' = calls + 1
  /\ snap' = IF sequential
             THEN [prefs |-> notification_preferences, audit |-> audit_logs]
             ELSE snap
  /\ UNCHANGED <<notification_preferences, audit_logs, rowLock, idle, clock,
                 sequential, effective, prev>>

\* updateNotificationPreferenceHandler up to its first await: validate the
\* body, answer 400 or call updateUserNotificationPreference
ValidateInput(r) ==
  /\ req[r].pc = "put_handler"
  /\ req' = [req EXCEPT ![r] =
               IF Malformed(req[r].type, req[r].optedOut)
               THEN [@ EXCEPT !.pc = "done", !.outcome = "invalid"]
               ELSE [@ EXCEPT !.pc = "put_connect"]]
  /\ UNCHANGED <<notification_preferences, audit_logs, rowLock, idle, clock,
                 calls, sequential, page, effective, snap, prev>>

\* await pool.connect() hands out a free connection
Connect(r) ==
  /\ req[r].pc \in AtConnect
  /\ idle > 0
  /\ idle' = idle - 1
  /\ req' = [req EXCEPT ![r].pc = AfterConnect(req[r].pc)]
  /\ UNCHANGED <<notification_preferences, audit_logs, rowLock, clock, calls,
                 sequential, page, effective, snap, prev>>

\* await pool.connect() rejects (no connection within connectionTimeoutMillis,
\* or the server is unreachable): thrown before the try block, nothing to
\* release
ConnectFail(r) ==
  /\ req[r].pc \in AtConnect
  /\ req' = [req EXCEPT ![r].pc = "done", ![r].outcome = "failed"]
  /\ UNCHANGED <<notification_preferences, audit_logs, rowLock, idle, clock,
                 calls, sequential, page, effective, snap, prev>>

\* getUserNotificationPreferences: the SELECT, the default fill, and
\* client.release() in finally
GetQuery(r) ==
  /\ req[r].pc = "get_query"
  /\ req' = [req EXCEPT ![r].pc = "done", ![r].outcome = "ok",
                        ![r].view = FullView(SelectUser(notification_preferences, req[r].userId))]
  /\ idle' = idle + 1
  /\ UNCHANGED <<notification_preferences, audit_logs, rowLock, clock, calls,
                 sequential, page, effective, snap, prev>>

\* faulty variant: the gate stores the default for a key it finds missing
GateQueryStoresDefault(r) ==
  /\ req[r].pc = "gate_query"
  /\ req' = [req EXCEPT ![r].pc = "done", ![r].outcome = "ok",
                        ![r].answer = GateAnswer(SelectOne(notification_preferences,
                                                           req[r].userId, req[r].type))]
  /\ notification_preferences' =
       IF KeyOf(r) \in DOMAIN notification_preferences
       THEN notification_preferences
       ELSE Upsert(notification_preferences, req[r].userId, req[r].type, FALSE)
  /\ idle' = idle + 1
  /\ UNCHANGED <<audit_logs, rowLock, clock, calls,
                 sequential, page, effective, snap, prev>>

\* shouldSendNotification: the SELECT, the answer, client.release()
GateQuery(r) ==
  /\ req[r].pc = "gate_query"
  /\ req' = [req EXCEPT ![r].pc = "done", ![r].outcome = "ok",
                        ![r].answer = GateAnswer(SelectOne(notification_preferences,
                                                           req[r].userId, req[r].type))]
  /\ idle' = idle + 1
  /\ UNCHANGED <<notification_preferences, audit_logs, rowLock, clock, calls,
                 sequential, page, effective, snap, prev>>

\* the SELECT of a read throws: finally releases the connection, the error
\* goes to the caller
ReadFail(r) ==
  /\ req[r].pc \in {"get_query", "gate_query"}
  /\ req' = [req EXCEPT ![r].pc = "done", ![r].outcome = "failed"]
  /\ idle' = idle + 1
  /\ UNCHANGED <<notification_preferences, audit_logs, rowLock, clock, calls,
                 sequential, page, effective, snap, prev>>

\* --------------------------------------- updateUserNotificationPreference
\* await client.query('BEGIN'): the transaction starts; NOW() is its start time
Begin(r) ==
  /\ req[r].pc = "put_begin"
  /\ req' = [req EXCEPT ![r].pc = "put_select", ![r].txnStart = clock]
  /\ clock' = clock + 1
  /\ UNCHANGED <<notification_preferences, audit_logs, rowLock, idle, calls,
                 sequential, page, effective, snap, prev>>

\* faulty variant: the comparison oldOptedOut !== optedOut left out, every call writes
SelectOldAlwaysWrite(r) ==
  /\ req[r].pc = "put_select"
  /\ LET old == OldOptedOut(SelectOne(notification_preferences, req[r].userId, req[r].type))
     IN req' = [req EXCEPT ![r].oldOptedOut = old, ![r].pc = "put_upsert"]
  /\ UNCHANGED <<notification_preferences, audit_logs, rowLock, idle, clock,
                 calls, sequential, page, effective, snap, prev>>

\* the SELECT of the old value (no lock is taken) and the comparison
\* oldOptedOut !== optedOut
SelectOld(r) ==
  /\ req[r].pc = "put_select"
  /\ LET old == OldOptedOut(SelectOne(notification_preferences, req[r].userId, req[r].type))
     IN req' = [req EXCEPT ![r].oldOptedOut = old,
                           ![r].pc = IF old # req[r].optedOut.value
                                     THEN "put_upsert" ELSE "put_commit"]
  /\ UNCHANGED <<notification_preferences, audit_logs, rowLock, idle, clock,
                 calls, sequential, page, effective, snap, prev>>

\* faulty variant: the write takes a lock on the whole table
UpsertPreferenceTableLock(r) ==
  /\ req[r].pc = "put_upsert"
  /\ \A k \in Keys : rowLock[k] = {}
  /\ rowLock' = [rowLock EXCEPT ![KeyOf(r)] = {r}]
  /\ req' = [req EXCEPT ![r].pc = "put_audit", ![r].wrote = TRUE]
  /\ UNCHANGED <<notification_preferences, audit_logs, idle, clock, calls,
                 sequential, page, effective, snap, prev>>

\* faulty variant: a plain INSERT, which the primary key rejects when the key
\* has a row
UpsertUniqueViolationPlainInsert(prefs, userId, type) == <<userId, type>> \in DOMAIN prefs

\* does the INSERT raise unique_violation (23505)?  With ON CONFLICT
\* (user_id, notification_type) DO UPDATE a row that exists is updated
UpsertUniqueViolation(prefs, userId, type) == FALSE

\* INSERT .. ON CONFLICT DO UPDATE: waits while another open transaction has
\* written the key, then writes the row inside this transaction
UpsertPreference(r) ==
  /\ req[r].pc = "put_upsert"
  /\ rowLock[KeyOf(r)] = {}
  /\ IF UpsertUniqueViolation(notification_preferences, req[r].userId, req[r].type)
     THEN /\ req' = [req EXCEPT ![r].pc = "put_rollback", ![r].err = "23505"]
          /\ UNCHANGED rowLock
     ELSE /\ rowLock' = [rowLock EXCEPT ![KeyOf(r)] = {r}]
          /\ req' = [req EXCEPT ![r].pc = "put_audit", ![r].wrote = TRUE]
  /\ UNCHANGED <<notification_preferences, audit_logs, idle, clock, calls,
                 sequential, page, effective, snap, prev>>

\* the ids of the committed audit rows
CommittedIds == {audit_logs[i].id : i \in DOMAIN audit_logs}

\* the ids of the audit rows inserted by the open transactions of other
\* requests: an INSERT of the same id waits for the end of that transaction
PendingIds(r) ==
  {req[q].audit[1].id : q \in {p \in Requests \ {r} : req[p].audit # << >>}}

\* INSERT INTO audit_logs (id, .. old_opted_out, new_opted_out, changed_at ..)
\* VALUES (uuidv4(), .. oldOptedOut, optedOut, NOW() ..), inside this
\* transaction
InsertAudit(r) ==
  /\ req[r].pc = "put_audit"
  /\ \E id \in Uuids \ (CommittedIds \cup PendingIds(r)) :
       req' = [req EXCEPT ![r].pc = "put_commit",
                          ![r].audit = << AuditRow(id, req[r].userId, req[r].type,
                                                   req[r].oldOptedOut,
                                                   req[r].optedOut.value,
                                                   req[r].txnStart) >>]
  /\ UNCHANGED <<notification_preferences, audit_logs, rowLock, idle, clock,
                 calls, sequential, page, effective, snap, prev>>

\* the same INSERT when uuidv4() returned the id of a committed row: the
\* primary key of audit_logs rejects it with unique_violation (23505)
InsertAuditDuplicateId(r) ==
  /\ req[r].pc = "put_audit"
  /\ Uuids \cap CommittedIds # {}
  /\ req' = [req EXCEPT ![r].pc = "put_rollback", ![r].err = "23505"]
  /\ UNCHANGED <<notification_preferences, audit_logs, rowLock, idle, clock,
                 calls, sequential, page, effective, snap, prev>>

\* what COMMIT publishes of the preference table
CommittedPreferences(r) ==
  IF req[r].wrote
  THEN Upsert(notification_preferences, req[r].userId, req[r].type, req[r].optedOut.value)
  ELSE notification_preferences

\* faulty variant: the audit row of a commit replaces the rows already there
CommittedAuditLatestOnly(r) == IF req[r].audit = << >> THEN audit_logs ELSE req[r].audit

\* faulty variant: the audit insert is not part of what COMMIT publishes
CommittedAuditDropped(r) == audit_logs

\* what COMMIT publishes of the audit table
CommittedAudit(r) == audit_logs \o req[r].audit

\* await client.query('COMMIT'): the writes of the transaction become visible
\* together and its row lock is released
Commit(r) ==
  /\ req[r].pc = "put_commit"
  /\ notification_preferences' = CommittedPreferences(r)
  /\ audit_logs' = CommittedAudit(r)
  /\ rowLock' = [k \in Keys |-> rowLock[k] \ {r}]
  /\ req' = [req EXCEPT ![r].pc = "put_read_connect", ![r].wrote = FALSE,
                        ![r].audit = << >>]
  /\ effective' = IF sequential /\ req[r].optedOut.value # EffectiveValue(snap.prefs, KeyOf(r))
                  THEN [effective EXCEPT ![KeyOf(r)] = @ + 1]
                  ELSE effective
  /\ UNCHANGED <<idle, clock, calls, sequential, page, snap, prev>>

\* a statement of the transaction (BEGIN, SELECT, INSERTs, COMMIT) throws:
\* control goes to the catch block
StatementFail(r) ==
  /\ req[r].pc \in InTransaction
  /\ req' = [req EXCEPT ![r].pc = "put_rollback"]
  /\ UNCHANGED <<notification_preferences, audit_logs, rowLock, idle, clock,
                 calls, sequential, page, effective, snap, prev>>

\* return await getUserNotificationPreferences(userId), after COMMIT and
\* inside the try block: its pool.connect() takes a second connection
ReadBackConnect(r) ==
  /\ req[r].pc = "put_read_connect"
  /\ idle > 0
  /\ idle' = idle - 1
  /\ req' = [req EXCEPT ![r].pc = "put_read_query"]
  /\ UNCHANGED <<notification_preferences, audit_logs, rowLock, clock, calls,
                 sequential, page, effective, snap, prev>>

\* that pool.connect() rejects: the error is caught by the catch block of
\* updateUserNotificationPreference
ReadBackConnectFail(r) ==
  /\ req[r].pc = "put_read_connect"
  /\ req' = [req EXCEPT ![r].pc = "put_rollback"]
  /\ UNCHANGED <<notification_preferences, audit_logs, rowLock, idle, clock,
                 calls, sequential, page, effective, snap, prev>>

\* the SELECT of the read-back, the default fill, both client.release() (the
\* inner and the outer finally), and the 200 response
ReadBackQuery(r) ==
  /\ req[r].pc = "put_read_query"
  /\ req' = [req EXCEPT ![r].pc = "done", ![r].outcome = "ok",
                        ![r].view = FullView(SelectUser(notification_preferences, req[r].userId))]
  /\ idle' = idle + 2
  /\ UNCHANGED <<notification_preferences, audit_logs, rowLock, clock, calls,
                 sequential, page, effective, snap, prev>>

\* the SELECT of the read-back throws: the inner finally releases the second
\* connection, the error is caught by the outer catch block
ReadBackQueryFail(r) ==
  /\ req[r].pc = "put_read_query"
  /\ req' = [req EXCEPT ![r].pc = "put_rollback"]
  /\ idle' = idle + 1
  /\ UNCHANGED <<notification_preferences, audit_logs, rowLock, clock, calls,
                 sequential, page, effective, snap, prev>>

\* catch: await client.query('ROLLBACK') drops the uncommitted writes and the
\* row lock (it changes nothing after COMMIT); throw err; finally
\* client.release(); the handler passes the error on to the error handling
\* middleware
Rollback(r) ==
  /\ req[r].pc = "put_rollback"
  /\ rowLock' = [k \in Keys |-> rowLock[k] \ {r}]
  /\ req' = [req EXCEPT ![r].pc = "done", ![r].outcome = ErrorResponse(req[r].err),
                        ![r].wrote = FALSE, ![r].audit = << >>]
  /\ idle' = idle + 1
  /\ UNCHANGED <<notification_preferences, audit_logs, clock, calls,
                 sequential, page, effective, snap, prev>>

\* the response has been delivered; the slot is free for the next request
Finish(r) ==
  /\ req[r].pc = "done"
  /\ req' = [req EXCEPT ![r] = IdleRequest]
  /\ page' = IF r \in page.pending
             THEN Received(r, req[r].kind, req[r].type, req[r].outcome, req[r].view)
             ELSE page
  /\ prev' = IF sequential /\ req[r].kind = "PUT"
             THEN [valid |-> req[r].outcome = "ok", userId |-> req[r].userId,
                   type |-> IF req[r].outcome = "ok" THEN req[r].type ELSE "payment_success",
                   optedOut |-> IF req[r].outcome = "ok" THEN req[r].optedOut.value ELSE FALSE,
                   view |-> req[r].view]
             ELSE prev
  /\ UNCHANGED <<notification_preferences, audit_logs, rowLock, idle, clock,
                 calls, sequential, effective, snap>>

Next ==
  \E r \in Requests :
    \/ Start(r)
    \/ ValidateInput(r)
    \/ Connect(r)
    \/ ConnectFail(r)
    \/ GetQuery(r)
    \/ GateQuery(r)
    \/ ReadFail(r)
    \/ Begin(r)
    \/ SelectOld(r)
    \/ UpsertPreference(r)
    \/ InsertAudit(r)
    \/ InsertAuditDuplicateId(r)
    \/ Commit(r)
    \/ StatementFail(r)
    \/ ReadBackConnect(r)
    \/ ReadBackConnectFail(r)
    \/ ReadBackQuery(r)
    \/ ReadBackQueryFail(r)
    \/ Rollback(r)
    \/ Finish(r)

\* concurrent requests
Spec == Init /\ [][Next]_vars

\* requests issued one after another
SpecSeq == InitSeq /\ [][Next]_vars

\* the concurrent system with the settings page of PageUser open: every
\* authorized PUT is a toggle of that page; GET and shouldSendNotification
\* come from anywhere
InitPage ==
  /\ notification_preferences = << >>
  /\ audit_logs = << >>
  /\ rowLock = [k \in Keys |-> {}]
  /\ idle = PoolMax
  /\ clock = 1
  /\ calls = 0
  /\ req = [r \in Requests |-> IdleRequest]
  /\ sequential = FALSE
  /\ snap = [prefs |-> << >>, audit |-> << >>]
  /\ prev = [valid |-> FALSE, userId |-> "u1", type |-> "payment_success",
             optedOut |-> FALSE, view |-> << >>]
  /\ effective = [k \in Keys |-> 0]
  /\ page = MountedPage

SpecPage == InitPage /\ [][Next]_vars

\* ------------------------------------------------------------------ claims
\* index of a category in the enum order
TypeIndex(type) ==
  CHOOSE i \in DOMAIN PaymentNotificationType : PaymentNotificationType[i] = type

\* the key of an audit row
AuditKey(e) == <<e.user_id, e.notification_type>>

\* the positions of the audit rows of a key, in commit order
AuditOf(log, key) == {i \in DOMAIN log : AuditKey(log[i]) = key}

\* the view the contract asks for: one entry per category, in enum order,
\* the stored value where a row exists and false otherwise
ExpectedView(prefs, userId) ==
  [i \in 1..Len(PaymentNotificationType) |->
     [type |-> PaymentNotificationType[i],
      optedOut |-> EffectiveValue(prefs, <<userId, PaymentNotificationType[i]>>)]]

\* a setPreference call whose body passed validation
IsSet(r) ==
  /\ req[r].kind = "PUT"
  /\ req[r].type \in AllTypes
  /\ req[r].optedOut.typeof = "boolean"

\* the step appends exactly one row to the audit table
AppendsOne ==
  /\ Len(audit_logs') = Len(audit_logs) + 1
  /\ SubSeq(audit_logs', 1, Len(audit_logs)) = audit_logs

\* C1: two concurrent setPreference calls on one key serialize: every audit
\* entry a commit appends has old equal to the value committed just before
\* that commit, and is appended only when the requested value differs from it
C1_Serialized ==
  [][\A i \in (Len(audit_logs) + 1)..Len(audit_logs') :
       /\ audit_logs'[i].old_opted_out =
            EffectiveValue(notification_preferences, AuditKey(audit_logs'[i]))
       /\ audit_logs'[i].new_opted_out #
            EffectiveValue(notification_preferences, AuditKey(audit_logs'[i]))]_vars

\* C2: the upsert and its audit entry become visible in one step or not at
\* all: a step that changes a stored value appends exactly the matching audit
\* entry, a step that appends an audit entry leaves its key stored with the
\* entry's new value and every other key as it was, and no step by which a
\* call enters or leaves its catch block (a failure after the upsert
\* included) changes either table
C2_Atomic ==
  [][/\ notification_preferences' # notification_preferences =>
          /\ AppendsOne
          /\ audit_logs'[Len(audit_logs')].old_opted_out =
               EffectiveValue(notification_preferences, AuditKey(audit_logs'[Len(audit_logs')]))
     /\ audit_logs' # audit_logs =>
          /\ AppendsOne
          /\ AuditKey(audit_logs'[Len(audit_logs')]) \in DOMAIN notification_preferences'
          /\ notification_preferences'[AuditKey(audit_logs'[Len(audit_logs')])] =
               audit_logs'[Len(audit_logs')].new_opted_out
          /\ \A k \in Keys \ {AuditKey(audit_logs'[Len(audit_logs')])} :
               /\ k \in DOMAIN notification_preferences' <=> k \in DOMAIN notification_preferences
               /\ k \in DOMAIN notification_preferences =>
                    notification_preferences'[k] = notification_preferences[k]
     /\ \A r \in Requests :
          (req'[r] # req[r] /\ "put_rollback" \in {req[r].pc, req'[r].pc}) =>
             /\ notification_preferences' = notification_preferences
             /\ audit_logs' = audit_logs]_vars

\* C2 witness: a call is in its catch block after a failure that followed its
\* upsert (the write is still pending in its open transaction), while the
\* tables hold an earlier committed change
C2_Witness ==
  \E r \in Requests :
    /\ IsSet(r)
    /\ req[r].pc = "put_rollback"
    /\ req[r].wrote
    /\ EffectiveValue(notification_preferences, KeyOf(r)) = req[r].oldOptedOut
    /\ Len(audit_logs) > 0

\* C3: for calls made one after another, the audit entries of every key are
\* as many as the committed calls that asked for a value other than the one
\* in effect before them, and they chain: each entry's old is the previous
\* entry's new (false for the first), its new differs from its old, and the
\* last new is the value in effect
C3_AuditCorrespondence ==
  \A k \in Keys :
    /\ Cardinality(AuditOf(audit_logs, k)) = effective[k]
    /\ \A i \in AuditOf(audit_logs, k) :
         /\ audit_logs[i].new_opted_out # audit_logs[i].old_opted_out
         /\ audit_logs[i].old_opted_out =
              IF \E j \in AuditOf(audit_logs, k) : j < i
              THEN audit_logs[CHOOSE j \in AuditOf(audit_logs, k) :
                                /\ j < i
                                /\ \A h \in AuditOf(audit_logs, k) : h < i => h <= j].new_opted_out
              ELSE FALSE
         /\ (\A j \in AuditOf(audit_logs, k) : j <= i) =>
              audit_logs[i].new_opted_out = EffectiveValue(notification_preferences, k)

\* C3 witness: a key has two audit entries (opted out, then back in) after
\* three calls, one of which changed nothing
C3_Witness ==
  \E k \in Keys :
    /\ Cardinality(AuditOf(audit_logs, k)) = 2
    /\ effective[k] = 2
    /\ calls > 2

\* C4: a successful setPreference whose value equals the value in effect (no
\* row counting as false) writes no row, appends no audit entry and returns
\* the full current view
C4_NoOp ==
  \A r \in Requests :
    (/\ IsSet(r)
     /\ req[r].pc = "done"
     /\ req[r].outcome = "ok"
     /\ req[r].optedOut.value = EffectiveValue(snap.prefs, KeyOf(r))) =>
       /\ notification_preferences = snap.prefs
       /\ audit_logs = snap.audit
       /\ req[r].view = ExpectedView(snap.prefs, req[r].userId)

\* C4 witness: setPreference(u, c, false) has succeeded on a key without a
\* row, for a user who has another category opted out
C4_Witness ==
  \E r \in Requests :
    /\ IsSet(r)
    /\ req[r].pc = "done"
    /\ req[r].outcome = "ok"
    /\ req[r].optedOut.value = FALSE
    /\ KeyOf(r) \notin DOMAIN snap.prefs
    /\ \E t \in AllTypes : EffectiveValue(snap.prefs, <<req[r].userId, t>>)

\* C5: a successful setPreference adds one audit entry if its value differs
\* from the value in effect and none otherwise; repeated right after a
\* successful call with the same arguments it leaves both tables as that
\* call left them and returns the same view
C5_Idempotent ==
  \A r \in Requests :
    (IsSet(r) /\ req[r].pc = "done" /\ req[r].outcome = "ok") =>
       /\ Len(audit_logs) = Len(snap.audit) +
            (IF req[r].optedOut.value # EffectiveValue(snap.prefs, KeyOf(r)) THEN 1 ELSE 0)
       /\ (/\ prev.valid
           /\ prev.userId = req[r].userId
           /\ prev.type = req[r].type
           /\ prev.optedOut = req[r].optedOut.value) =>
             /\ notification_preferences = snap.prefs
             /\ audit_logs = snap.audit
             /\ req[r].view = prev.view

\* C5 witness: setPreference(u, c, true) has succeeded right after a
\* successful setPreference(u, c, true) that made the one audit entry
C5_Witness ==
  \E r \in Requests :
    /\ IsSet(r)
    /\ req[r].pc = "done"
    /\ req[r].outcome = "ok"
    /\ req[r].optedOut.value = TRUE
    /\ prev.valid
    /\ prev.userId = req[r].userId
    /\ prev.type = req[r].type
    /\ prev.optedOut = TRUE
    /\ Cardinality(AuditOf(audit_logs, KeyOf(r))) = 1

\* C6: the view getPreferences returns has one entry per category, in enum
\* order, with the stored value where a row exists and false otherwise
C6_FullView ==
  [][\A r \in Requests :
       (req[r].pc = "get_query" /\ req'[r].pc = "done" /\ req'[r].outcome = "ok") =>
          req'[r].view = ExpectedView(notification_preferences, req[r].userId)]_vars

\* C6 witness: getPreferences has answered a user who has one category
\* opted out and no row at all for another
C6_Witness ==
  \E r \in Requests :
    /\ req[r].kind = "GET"
    /\ req[r].pc = "done"
    /\ req[r].outcome = "ok"
    /\ \E i \in DOMAIN req[r].view : req[r].view[i].optedOut
    /\ \E t \in AllTypes : <<req[r].userId, t>> \notin DOMAIN notification_preferences

\* C6 witness: getPreferences has answered a user without any row
C6_WitnessDefault ==
  \E r \in Requests :
    /\ req[r].kind = "GET"
    /\ req[r].pc = "done"
    /\ req[r].outcome = "ok"
    /\ \A t \in AllTypes : <<req[r].userId, t>> \notin DOMAIN notification_preferences
    /\ Len(audit_logs) > 0

\* C7: every successful setPreference(u, c, v) returns a view with one entry
\* per category in which the entry of c is v
C7_ViewReflectsWrite ==
  \A r \in Requests :
    (IsSet(r) /\ req[r].pc = "done" /\ req[r].outcome = "ok") =>
       /\ Len(req[r].view) = Len(PaymentNotificationType)
       /\ \A i \in DOMAIN req[r].view : req[r].view[i].type = PaymentNotificationType[i]
       /\ req[r].view[TypeIndex(req[r].type)].optedOut = req[r].optedOut.value

\* C8: the gate answers false exactly when a row with opted_out = true is
\* stored for the key, which is exactly when the last committed audit entry
\* of the key has new = true
C8_Gate ==
  [][\A r \in Requests :
       (req[r].pc = "gate_query" /\ req'[r].pc = "done" /\ req'[r].outcome = "ok") =>
          /\ req'[r].answer = FALSE <=>
               (/\ KeyOf(r) \in DOMAIN notification_preferences
                /\ notification_preferences[KeyOf(r)] = TRUE)
          /\ req'[r].answer = FALSE <=>
               (\E i \in AuditOf(audit_logs, KeyOf(r)) :
                  /\ \A j \in AuditOf(audit_logs, KeyOf(r)) : j <= i
                  /\ audit_logs[i].new_opted_out = TRUE)]_vars

\* C8 witness: the gate has answered false (suppress)
C8_Witness ==
  \E r \in Requests :
    /\ req[r].kind = "GATE"
    /\ req[r].pc = "done"
    /\ req[r].outcome = "ok"
    /\ req[r].answer = FALSE

\* C8 witness: the gate has answered true for a key whose row says opted_out
\* = false after an opt-out was taken back
C8_WitnessOptedIn ==
  \E r \in Requests :
    /\ req[r].kind = "GATE"
    /\ req[r].pc = "done"
    /\ req[r].outcome = "ok"
    /\ req[r].answer = TRUE
    /\ KeyOf(r) \in DOMAIN notification_preferences
    /\ Cardinality(AuditOf(audit_logs, KeyOf(r))) = 2

\* C9: a write request with an unknown category or a non-boolean optedOut is
\* answered InvalidArgument without storage access: it never takes a
\* connection or a lock and both tables stay as they were before it
C9_InvalidArgument ==
  \A r \in Requests :
    (/\ req[r].kind = "PUT"
     /\ req[r].pc # "idle"
     /\ (req[r].type \notin AllTypes \/ req[r].optedOut.typeof # "boolean")) =>
       /\ req[r].pc \in {"put_handler", "done"}
       /\ req[r].pc = "done" => req[r].outcome = "invalid"
       /\ idle = PoolMax
       /\ \A k \in Keys : rowLock[k] = {}
       /\ notification_preferences = snap.prefs
       /\ audit_logs = snap.audit
       /\ \A u \in Users :
            FullView(SelectUser(notification_preferences, u)) = FullView(SelectUser(snap.prefs, u))

\* C9 witness: a write with a non-boolean optedOut for a known category has
\* been answered while the tables hold a committed change
C9_Witness ==
  \E r \in Requests :
    /\ req[r].kind = "PUT"
    /\ req[r].pc = "done"
    /\ req[r].type \in AllTypes
    /\ req[r].optedOut.typeof # "boolean"
    /\ req[r].outcome = "invalid"
    /\ Len(audit_logs) > 0

\* C9 witness: a write with an unknown category has been answered
C9_WitnessUnknownCategory ==
  \E r \in Requests :
    /\ req[r].kind = "PUT"
    /\ req[r].pc = "done"
    /\ req[r].type = "unknown_category"
    /\ req[r].optedOut.typeof = "boolean"
    /\ req[r].outcome = "invalid"

\* C10: when setPreference reports a failure, its unit of work did not
\* commit: both tables are as they were before the call
C10_FailureMeansNoCommit ==
  \A r \in Requests :
    (IsSet(r) /\ req[r].pc = "done" /\ req[r].outcome = "failed") =>
       /\ notification_preferences = snap.prefs
       /\ audit_logs = snap.audit

\* C11: the audit log is append-only: every step keeps all committed entries,
\* with all their fields, at their positions; the log only grows
C11_AppendOnly ==
  [][/\ Len(audit_logs') >= Len(audit_logs)
     /\ SubSeq(audit_logs', 1, Len(audit_logs)) = audit_logs]_vars

\* C11 witness: the log holds two entries, and a read has been answered
\* after they were committed
C11_Witness ==
  /\ Len(audit_logs) >= 2
  /\ \E r \in Requests :
       /\ req[r].kind \in {"GET", "GATE"}
       /\ req[r].pc = "done"
       /\ req[r].outcome = "ok"

\* the audit entries of a key whose changed_at lies before that of entry i
EarlierByChangedAt(log, key, i) ==
  {j \in AuditOf(log, key) : log[j].changed_at < log[i].changed_at}

\* C12: for every key the order of the audit entries by changed_at is the
\* order in which they were committed, and replayed in changed_at order each
\* entry's old is the previous entry's new (false for the first) and the last
\* entry's new is the stored value
C12_ChangedAtOrder ==
  \A k \in Keys :
    \A i \in AuditOf(audit_logs, k) :
      /\ \A j \in AuditOf(audit_logs, k) :
           j < i => audit_logs[j].changed_at < audit_logs[i].changed_at
      /\ audit_logs[i].old_opted_out =
           IF EarlierByChangedAt(audit_logs, k, i) = {}
           THEN FALSE
           ELSE audit_logs[CHOOSE j \in EarlierByChangedAt(audit_logs, k, i) :
                             \A h \in EarlierByChangedAt(audit_logs, k, i) :
                               audit_logs[h].changed_at <= audit_logs[j].changed_at].new_opted_out
      /\ (\A j \in AuditOf(audit_logs, k) :
            audit_logs[j].changed_at <= audit_logs[i].changed_at) =>
           audit_logs[i].new_opted_out = EffectiveValue(notification_preferences, k)

\* C13: the ids of the audit entries are unique and generation-ordered: an
\* entry created later has an id that sorts after the ids of all entries
\* created earlier (for calls made one after another the log is in creation
\* order)
C13_GenerationOrderedIds ==
  \A i, j \in DOMAIN audit_logs :
    i < j => audit_logs[i].id < audit_logs[j].id

C15_Snapshot ==
  [][\A r \in Requests :
       (/\ req[r].pc \in {"get_query", "put_read_query"}
        /\ req'[r].pc = "done"
        /\ req'[r].outcome = "ok") =>
          /\ \A i \in DOMAIN PaymentNotificationType :
               /\ i \in DOMAIN req'[r].view
               /\ req'[r].view[i].optedOut =
                    EffectiveValue(notification_preferences,
                                   <<req[r].userId, PaymentNotificationType[i]>>)
          /\ \A q \in Requests \ {r} :
               (/\ req[q].wrote
                /\ req[q].userId = req[r].userId
                /\ req[q].optedOut.value #
                     EffectiveValue(notification_preferences, KeyOf(q))) =>
                  req'[r].view[TypeIndex(req[q].type)].optedOut # req[q].optedOut.value]_vars

\* C15 witness: a view of a user shows one category with its committed
\* opt-out and another category with its committed value while an open
\* transaction holds an uncommitted different value for it
C15_Witness ==
  \E r \in Requests, q \in Requests :
    /\ r # q
    /\ req[r].kind = "GET"
    /\ req[r].pc = "done"
    /\ req[r].outcome = "ok"
    /\ req[q].wrote
    /\ req[q].userId = req[r].userId
    /\ req[r].view[TypeIndex(req[q].type)].optedOut # req[q].optedOut.value
    /\ \E i \in DOMAIN req[r].view : req[r].view[i].optedOut

\* C16: getPreferences and isNotificationAllowed are pure reads: no step of a
\* GET or gate request changes a preference row or the audit log
C16_PureReads ==
  [][\A r \in Requests :
       (/\ req'[r] # req[r]
        /\ req[r].pc # "idle"
        /\ req[r].kind \in {"GET", "GATE"}) =>
          /\ notification_preferences' = notification_preferences
          /\ audit_logs' = audit_logs]_vars

\* C16 witness: the gate has answered for a key without a row while another
\* key has a committed row and audit entry
C16_Witness ==
  \E r \in Requests :
    /\ req[r].kind = "GATE"
    /\ req[r].pc = "done"
    /\ req[r].outcome = "ok"
    /\ KeyOf(r) \notin DOMAIN notification_preferences
    /\ Len(audit_logs) > 0

\* C17: a GET or PUT /notification-preferences whose Authorization header
\* is not 'Bearer <non-empty token>' is answered 401 without reaching the
\* service: it takes no connection, reads no view, writes nothing, and both
\* tables are as they were before it
C17_Unauthorized ==
  \A r \in Requests :
    (/\ req[r].pc # "idle"
     /\ req[r].kind \in {"GET", "PUT"}
     /\ ~(req[r].auth.present /\ req[r].auth.prefix = "Bearer " /\ req[r].auth.token # "")) =>
       /\ req[r].pc = "done"
       /\ req[r].outcome = "unauthorized"
       /\ req[r].view = << >>
       /\ ~req[r].wrote
       /\ req[r].audit = << >>
       /\ idle = PoolMax
       /\ \A k \in Keys : rowLock[k] = {}
       /\ notification_preferences = snap.prefs
       /\ audit_logs = snap.audit

\* C17 witness: a PUT with a header of another scheme has been answered 401
\* while the tables hold a committed change
C17_Witness ==
  \E r \in Requests :
    /\ req[r].kind = "PUT"
    /\ req[r].pc = "done"
    /\ req[r].auth = BasicHeader
    /\ req[r].outcome = "unauthorized"
    /\ Len(audit_logs) > 0

\* C17 witness: a GET without an Authorization header has been answered 401
C17_WitnessNoHeader ==
  \E r \in Requests :
    /\ req[r].kind = "GET"
    /\ req[r].pc = "done"
    /\ req[r].auth = NoHeader
    /\ req[r].outcome = "unauthorized"

\* a setPreference call that holds a pool connection: from BEGIN to the end
\* of its read-back or of its catch block
HoldsConnection(q) ==
  /\ IsSet(q)
  /\ req[q].pc \in InTransaction \cup {"put_read_connect", "put_read_query", "put_rollback"}

\* a write in flight on the key of r, other than r
SameKeyWriter(r) ==
  \E q \in Requests \ {r} :
    /\ IsSet(q)
    /\ req[q].pc \notin {"idle", "done"}
    /\ KeyOf(q) = KeyOf(r)

\* the next step of the unit of work of r, from pool.connect() to COMMIT
UnitOfWorkStep(r) ==
  \/ Connect(r)
  \/ Begin(r)
  \/ SelectOld(r)
  \/ UpsertPreference(r)
  \/ InsertAudit(r)
  \/ InsertAuditDuplicateId(r)
  \/ Commit(r)

LastAuditOf(log, key) ==
  CHOOSE i \in AuditOf(log, key) : \A j \in AuditOf(log, key) : j <= i

\* C19: in every committed state a key has a preference row exactly when it
\* has an audit row, and the stored opted_out is the new value of the audit
\* row of that key committed last
C19_RecordMatchesAudit ==
  \A key \in Keys :
    /\ key \in DOMAIN notification_preferences <=> AuditOf(audit_logs, key) # {}
    /\ key \in DOMAIN notification_preferences =>
         notification_preferences[key] =
           audit_logs[LastAuditOf(audit_logs, key)].new_opted_out

\* C19 witness: a key was opted out and opted in again: two committed audit
\* rows and a stored row holding false
C19_Witness ==
  \E key \in Keys :
    /\ Cardinality(AuditOf(audit_logs, key)) >= 2
    /\ key \in DOMAIN notification_preferences
    /\ notification_preferences[key] = FALSE
    /\ audit_logs[LastAuditOf(audit_logs, key)].old_opted_out = TRUE

\* C20: from its arrival on, a setPreference call of user u for category c
\* leaves the row of every other key as it found it (present or absent, same
\* value), keeps every audit row it found, and adds at most one audit row,
\* which is for (u, c)
C20_Frame ==
  \A r \in Requests :
    (req[r].kind = "PUT" /\ req[r].pc # "idle") =>
      /\ \A key \in Keys \ {KeyOf(r)} :
           /\ key \in DOMAIN notification_preferences <=> key \in DOMAIN snap.prefs
           /\ key \in DOMAIN notification_preferences =>
                notification_preferences[key] = snap.prefs[key]
      /\ Len(audit_logs) >= Len(snap.audit)
      /\ SubSeq(audit_logs, 1, Len(snap.audit)) = snap.audit
      /\ Len(audit_logs) <= Len(snap.audit) + 1
      /\ Len(audit_logs) = Len(snap.audit) + 1 =>
           AuditKey(audit_logs[Len(audit_logs)]) = KeyOf(r)

\* C20 witness: a call changed its key while another category of the same
\* user had a row and an audit row; both are as they were
C20_Witness ==
  \E r \in Requests, other \in Keys :
    /\ req[r].kind = "PUT"
    /\ req[r].pc = "done"
    /\ req[r].outcome = "ok"
    /\ Len(audit_logs) = Len(snap.audit) + 1
    /\ other[1] = req[r].userId
    /\ other # KeyOf(r)
    /\ other \in DOMAIN snap.prefs
    /\ AuditOf(snap.audit, other) # {}

\* C20 witness: the same with a row of another user
C20_WitnessOtherUser ==
  \E r \in Requests, foreign \in Keys :
    /\ req[r].kind = "PUT"
    /\ req[r].pc = "done"
    /\ req[r].outcome = "ok"
    /\ Len(audit_logs) = Len(snap.audit) + 1
    /\ foreign[1] # req[r].userId
    /\ foreign \in DOMAIN snap.prefs

\* the setPreference calls that have committed, still hold the connection of
\* their transaction, and wait in the pool.connect() of the read-back
ReadBackWaiters == {r \in Requests : req[r].pc = "put_read_connect"}

\* C21: no reachable state has every connection of the pool held by a
\* setPreference call that is itself waiting for a further connection for its
\* post-commit read
C21_PoolNeverHeldByWaiters ==
  ~(idle = 0 /\ Cardinality(ReadBackWaiters) = PoolMax)

\* C22: with the page of PageUser the only writer, once every update the
\* page issued has been answered successfully, each checkbox shows the stored
\* value of its category (false where no row exists)
C22_DisplayMatchesStore ==
  (/\ page.mounted
   /\ ~page.loading
   /\ page.preferences # << >>
   /\ page.pending = {}
   /\ ~page.failed) =>
     \A type \in AllTypes :
       Checked(page.preferences, type) =
         EffectiveValue(notification_preferences, <<PageUser, type>>)

====
